---- MODULE Spec2Model ----
(***************************************************************************)
(* A model of the currying library of src/curry.h: the wrapper             *)
(* curry_wrapper<callable_t>, the construction function curry, and the     *)
(* application engine do_apply, driven by a client program that builds     *)
(* wrappers, applies argument groups to them and mutates the objects it    *)
(* owns.                                                                   *)
(*                                                                         *)
(* Objects live in a heap of locations.  A value is a record tagged by k:  *)
(*   int    a plain value                                                  *)
(*   fn     a callable of the client (name, arity, captures, own state)    *)
(*   bind   the result of std::bind_front(f, a)                            *)
(*   ref    a std::reference_wrapper to an object, or to the               *)
(*          curry_wrapped_val member of a wrapper object (mem = TRUE)      *)
(*   lref   a C++ reference member (callable_t = T&)                       *)
(*   wrap   a curry_wrapper, holding one value                             *)
(*   moved  the state of an object that has been moved from                *)
(*   nil    an unused location                                             *)
(***************************************************************************)
EXTENDS Integers, Sequences, FiniteSets, TLC

\* ---- bounds of the model ----
MaxArg == 2      \* arguments are drawn from 1..MaxArg
MaxArity == 3    \* the generic function f has an arity in 1..MaxArity
MaxHist == 4     \* longest chain of argument tokens applied to one root
MaxGroup == 2    \* longest argument group of one call outside a single chain
MaxW == 3        \* number of named wrappers the client keeps at a time
MaxMut == 1      \* number of direct mutations the client performs
MaxLog == 3      \* a call that returns nothing is made only while the log is shorter

\* ---- locations ----
LV == 1          \* the client's named callable v
LG == 2          \* the object a reference-returning callable refers to
FirstW == 3      \* named wrappers are allocated from here
NLoc == FirstW + MaxHist
Loc == 1..NLoc

Args == 1..MaxArg
Unit == 0        \* the token of an empty application in a history

VARIABLES heap, meta, log, nmut, last
vars == <<heap, meta, log, nmut, last>>

\* ---- values ----
IntV(n) == [k |-> "int", n |-> n]
Fn(name, ar, cap, st) == [k |-> "fn", name |-> name, ar |-> ar, cap |-> cap, st |-> st]
Bind(f, a) == [k |-> "bind", f |-> f, a |-> a]
Ref(loc, mem, cq) == [k |-> "ref", loc |-> loc, mem |-> mem, cq |-> cq]
LRef(loc) == [k |-> "lref", loc |-> loc]
Wrap(held) == [k |-> "wrap", held |-> held]
Nil == [k |-> "nil"]
Moved == [k |-> "moved"]

\* results of an invocation, by value category
PrValue(v) == [cat |-> "prvalue", v |-> v]
LValue(loc) == [cat |-> "lvalue", loc |-> loc]
VoidR == [cat |-> "void"]

RECURSIVE Encode(_)
Encode(s) == IF s = <<>> THEN 0 ELSE 10 * Encode(SubSeq(s, 1, Len(s) - 1)) + s[Len(s)]

RECURSIVE SumSeq(_)
SumSeq(s) == IF s = <<>> THEN 0 ELSE Head(s) + SumSeq(Tail(s))

\* ---- the client's callables ----
\* f: the generic function of fixed arity, f(x1..xk), with a side effect
f(ar) == Fn("f", ar, <<>>, 0)
\* expr of test.cpp, and the lambda it returns
expr == Fn("expr", 2, <<>>, 0)
\* the zero-argument lambda of test.cpp:37
g == Fn("g", 0, <<>>, 0)
\* the lambda without a return value of test.cpp:39
pr == Fn("pr", 1, <<>>, 0)
\* a zero-argument callable without a return value
gv == Fn("gv", 0, <<>>, 0)
\* the chain of lambdas of test.cpp:43-47
l0 == Fn("l0", 0, <<>>, 0)
\* a function object with state: operator()(xs...) adds to its state, not const
acc(ar) == Fn("acc", ar, <<>>, 0)
\* a function returning a reference to the object at LG
get == Fn("get", 1, <<>>, 0)
\* a function object with two call operators, of lo and of lo + 1 arguments
ov(lo) == Fn("ov", lo, <<>>, 0)
\* the argument counts the call operators of c take
Accepts(c, n) == n = c.ar \/ (c.name = "ov" /\ n = c.ar + 1)
\* a plain value, as curry("a raw value") of test.cpp:41
raw == IntV(7)

\* the object at LG: a function object, or a curried function object
GlobalObjects == {acc(1), Wrap(acc(1))}

Roots == {f(a) : a \in 1..MaxArity} \cup {expr, g, gv, pr, l0, acc(1), acc(2), get, raw}

\* operator() of the callable is not const-qualified
IsMutable(c) == c.name = "acc"

\* the call c(args): the callable afterwards, the result and the side effect
PrimInvoke(c, args) ==
    CASE c.name = "f" -> [c |-> c, res |-> PrValue(IntV(Encode(args))), ev |-> "f"]
      [] c.name = "expr" ->
            [c |-> c, res |-> PrValue(Fn("lambda", 2, args, 0)), ev |-> "expr"]
      [] c.name = "lambda" ->
            [c |-> c, res |-> PrValue(IntV(SumSeq(c.cap) + SumSeq(args))), ev |-> "lambda"]
      [] c.name = "g" -> [c |-> c, res |-> PrValue(IntV(100)), ev |-> "g"]
      [] c.name = "pr" -> [c |-> c, res |-> VoidR, ev |-> "pr"]
      [] c.name = "gv" -> [c |-> c, res |-> VoidR, ev |-> "gv"]
      [] c.name = "l0" -> [c |-> c, res |-> PrValue(Fn("l1", 1, <<>>, 0)), ev |-> "forget"]
      [] c.name = "l1" -> [c |-> c, res |-> PrValue(Fn("l2", 1, args, 0)), ev |-> "your"]
      [] c.name = "l2" ->
            [c |-> c, res |-> PrValue(Fn("l3", 0, c.cap \o args, 0)), ev |-> "unit"]
      [] c.name = "l3" ->
            [c |-> c, res |-> PrValue(IntV(SumSeq(c.cap))), ev |-> "applications"]
      [] c.name = "acc" ->
            [c |-> [c EXCEPT !.st = c.st + Encode(args)],
             res |-> PrValue(IntV(c.st + Encode(args))), ev |-> "acc"]
      [] c.name = "get" -> [c |-> c, res |-> LValue(LG), ev |-> "get"]
      [] c.name = "ov" ->
            [c |-> c, res |-> PrValue(IntV(Encode(args))),
             ev |-> IF Len(args) = c.ar THEN "ov" ELSE "ovlong"]

\* ---- std::reference_wrapper ----
Deref(h, r) == IF r.mem THEN h[r.loc].held ELSE h[r.loc]
Store(h, r, v) ==
    IF r.mem THEN [h EXCEPT ![r.loc] = Wrap(v)] ELSE [h EXCEPT ![r.loc] = v]

\* the arguments a bind_front object calls its target with: the bound
\* argument first, then the arguments of the call
BoundCallBack(c, args) == args \o <<c.a>>
BoundCall(c, args) == <<c.a>> \o args

\* ---- std::is_invocable_v<callable, args...>; cq: the callable is const ----
RECURSIVE Invocable(_, _, _, _)
Invocable(h, c, args, cq) ==
    CASE c.k = "fn" -> Accepts(c, Len(args)) /\ (cq => ~IsMutable(c))
      [] c.k = "bind" -> Invocable(h, c.f, BoundCall(c, args), cq)
      [] c.k = "ref" -> Invocable(h, Deref(h, c), args, c.cq)
      [] OTHER -> FALSE

\* an argument that is std::ref(x) of the client's int variable x, kept at LG
XRef == -1
\* the values the parameters of the callable are initialised from: a
\* std::reference_wrapper<int> converts to the int it refers to at the call
ArgValues(h, args) == [i \in 1..Len(args) |-> IF args[i] = XRef THEN h[LG].n ELSE args[i]]

\* ---- std::invoke(callable, args...) ----
RECURSIVE Invoke(_, _, _)
Invoke(h, c, args) ==
    CASE c.k = "fn" ->
            LET r == PrimInvoke(c, ArgValues(h, args))
            IN  [h |-> h, c |-> r.c, res |-> r.res, evs |-> <<r.ev>>]
      [] c.k = "bind" ->
            LET r == Invoke(h, c.f, BoundCall(c, args))
            IN  [r EXCEPT !.c = [c EXCEPT !.f = r.c]]
      [] c.k = "ref" ->
            LET r == Invoke(h, Deref(h, c), args)
            IN  [r EXCEPT !.h = Store(r.h, c, r.c), !.c = c]

\* ---- types, as far as is_curried_v looks at them ----
\* the type callable_t deduced for the forwarding reference of curry
Type(wrapper, const, ref) == [wrapper |-> wrapper, const |-> const, ref |-> ref]
remove_cvref_t(t) == Type(t.wrapper, FALSE, "")

\* is_curried_v<t>: the specialisation for curry_wrapper<t>, and the base case
\* that removes the qualifiers of t once
is_curried_v_exact(t) == t.wrapper /\ t = remove_cvref_t(t)
is_curried_v(t) ==
    IF t.wrapper /\ t = remove_cvref_t(t)
    THEN TRUE
    ELSE FALSE \/ (t # remove_cvref_t(t) /\ remove_cvref_t(t).wrapper)

\* the object an expression denotes
ValueOf(h, x) == IF x.cat = "lvalue" THEN h[x.loc] ELSE x.v
callable_t(h, x, cq) ==
    Type(ValueOf(h, x).k = "wrap", cq, IF x.cat = "lvalue" THEN "&" ELSE "")

\* curry_wrapper<callable_t>(std::forward<callable_t>(callable)): callable_t is
\* T& for an lvalue, so the member is a reference; T for an rvalue, so the
\* member is move-constructed
curry_wrapper_by_value(h, x) == Wrap(ValueOf(h, x))
curry_wrapper(h, x) == IF x.cat = "lvalue" THEN Wrap(LRef(x.loc)) ELSE Wrap(x.v)

\* curry(callable): the wrapper it returns, by value (the return type is auto)
curry_eager(h, x, cq) ==
    LET v == ValueOf(h, x)
    IN  IF v.k = "fn" /\ v.ar = 0 /\ PrimInvoke(v, <<>>).res.cat = "prvalue"
        THEN Wrap(PrimInvoke(v, <<>>).res.v)
        ELSE IF is_curried_v(callable_t(h, x, cq)) THEN v ELSE curry_wrapper(h, x)
curry(h, x, cq) ==
    IF is_curried_v(callable_t(h, x, cq)) THEN ValueOf(h, x) ELSE curry_wrapper(h, x)

\* ---- how operator() exposes the held value to do_apply ----
\* c: the callable passed, cq: whether it is const, own: whether it is the
\* held value itself, passed as an expiring value
Exposed(c, cq, own) == [c |-> c, cq |-> cq, own |-> own]

\* std::ref(curry_wrapped_val) on the wrapper at location l; const does not
\* reach through a reference member
RefHeld(h, l, cq) ==
    IF h[l].held.k = "lref"
    THEN Ref(h[l].held.loc, FALSE, FALSE)
    ELSE Ref(l, TRUE, cq)

\* curry_wrapped_val_or_reference_wrapper() && and const&& of a wrapper value
curry_wrapped_val_or_reference_wrapper(w, cq) ==
    IF w.held.k = "lref"
    THEN Exposed(Ref(w.held.loc, FALSE, cq), FALSE, FALSE)
    ELSE Exposed(w.held, cq, TRUE)

\* the four operator() overloads of the wrapper at location l
Expose_moving(h, l, mode) ==
    curry_wrapped_val_or_reference_wrapper(h[l], mode \in {"clv", "crv"})
Expose_cloning(h, l, mode) ==
    IF mode \in {"lv", "clv"} /\ h[l].held.k # "lref"
    THEN Exposed(h[l].held, mode = "clv", FALSE)
    ELSE Expose_moving(h, l, mode)
Expose(h, l, mode) ==
    CASE mode = "lv" -> Exposed(RefHeld(h, l, FALSE), FALSE, FALSE)
      [] mode = "clv" -> Exposed(RefHeld(h, l, TRUE), FALSE, FALSE)
      [] mode = "rv" -> curry_wrapped_val_or_reference_wrapper(h[l], FALSE)
      [] mode = "crv" -> curry_wrapped_val_or_reference_wrapper(h[l], TRUE)

\* ---- do_apply ----
\* the requires-clauses of the one-argument overloads: is the callable
\* invocable with exactly arg1
invocable_with_eager(h, e, a1) ==
    \/ Invocable(h, e.c, <<a1>>, e.cq)
    \/ e.c.k = "fn"
    \/ e.c.k = "ref" /\ Deref(h, e.c).k = "fn"
invocable_with_unit(h, e, a1) ==
    Invocable(h, e.c, <<a1>>, e.cq) \/ Invocable(h, e.c, <<>>, e.cq)
invocable_with_longest(h, e, a1) ==
    /\ Invocable(h, e.c, <<a1>>, e.cq)
    /\ ~\E m \in 1..MaxArity : Invocable(h, e.c, <<a1>> \o [i \in 1..m |-> a1], e.cq)
invocable_with(h, e, a1) == Invocable(h, e.c, <<a1>>, e.cq)

\* the requires-clause of the overload that binds: the callable is not
\* invocable with arg1; nothing else is asked of the callable or of arg1
bind_overload_viable_callable(h, e, a1) ==
    ~invocable_with(h, e, a1) /\ e.c.k \in {"fn", "bind", "ref"}
bind_overload_viable_arity(h, e, a1) ==
    ~invocable_with(h, e, a1)
    /\ \E m \in 1..MaxArity : Invocable(h, e.c, <<a1>> \o [i \in 1..m |-> a1], e.cq)
bind_overload_viable(h, e, a1) == ~invocable_with(h, e, a1)

\* the variadic overload calls the result of the first argument with the rest
\* of the pack: a void result can be called with nothing
applicable_to_void_lenient(rest) == TRUE
applicable_to_void(rest) == rest = <<>>

\* the pack args... that the variadic overload applies to the result of the
\* first argument
rest_args_dropped(args) == <<>>
rest_args_reversed(args) == [i \in 1..(Len(args) - 1) |-> args[Len(args) + 1 - i]]
rest_args_skipping(args) == IF Len(args) >= 3 THEN Tail(Tail(args)) ELSE Tail(args)
rest_args(args) == Tail(args)

\* The outcome of an application: ok = FALSE when no overload is viable (the
\* program is rejected), h the heap afterwards, c the callable passed in as
\* it is afterwards, first what the first step did, out the wrapper produced
\* (or Nil when the call returns void), evs the invocations made, each with
\* the index of the argument that triggered it.
Rejected == [ok |-> FALSE]
\* one call of a one-argument overload of do_apply: the argument it was
\* given and whether it invoked or bound
Step(arg, did) == [arg |-> arg, did |-> did]
Tag(evs, j) == [i \in 1..Len(evs) |-> [fn |-> evs[i], at |-> j]]

\* do_apply(callable) for a callable that is not invocable with no arguments:
\* std::invoke_result_t<forwarding_callable_t> does not exist, so neither
\* zero-argument overload is viable
no_zero_argument_overload_identity(h, e) ==
    [ok |-> TRUE, h |-> h, c |-> e.c, first |-> "bind", out |-> Wrap(e.c), evs |-> <<>>,
     steps |-> <<>>]
no_zero_argument_overload(h, e) == Rejected

RECURSIVE do_apply(_, _, _, _)
do_apply(h, e, args, j) ==
    IF args = <<>>
    THEN \* the zero-argument overloads
         IF ~Invocable(h, e.c, <<>>, e.cq)
         THEN no_zero_argument_overload(h, e)
         ELSE LET r == Invoke(h, e.c, <<>>)
              IN  [ok |-> TRUE, h |-> r.h, c |-> r.c, first |-> "invoke",
                   out |-> IF r.res.cat = "void" THEN Nil ELSE curry(r.h, r.res, FALSE),
                   evs |-> Tag(r.evs, j), steps |-> <<Step(Unit, "invoke")>>]
    ELSE LET a1 == Head(args)
             rest == rest_args(args)
         IN  IF invocable_with(h, e, a1)
             THEN \* the overloads that invoke
                  LET r == Invoke(h, e.c, <<a1>>)
                  IN  IF r.res.cat = "void"
                      THEN IF ~applicable_to_void(rest)
                           THEN Rejected
                           ELSE [ok |-> TRUE, h |-> r.h, c |-> r.c, first |-> "invoke",
                                 out |-> Nil, evs |-> Tag(r.evs, j),
                                 steps |-> <<Step(a1, "invoke")>>]
                      ELSE LET w == curry(r.h, r.res, FALSE)
                           IN  IF rest = <<>>
                               THEN [ok |-> TRUE, h |-> r.h, c |-> r.c,
                                     first |-> "invoke", out |-> w,
                                     evs |-> Tag(r.evs, j),
                                     steps |-> <<Step(a1, "invoke")>>]
                               ELSE LET t == do_apply(r.h,
                                                curry_wrapped_val_or_reference_wrapper(w, FALSE),
                                                rest, j + 1)
                                    IN  IF ~t.ok
                                        THEN Rejected
                                        ELSE [t EXCEPT !.c = r.c, !.first = "invoke",
                                                       !.evs = Tag(r.evs, j) \o t.evs,
                                                       !.steps = <<Step(a1, "invoke")>>
                                                                     \o t.steps]
             ELSE IF ~bind_overload_viable(h, e, a1)
             THEN Rejected
             ELSE \* the overload that binds
                  LET w == curry(h, PrValue(Bind(e.c, a1)), FALSE)
                  IN  IF rest = <<>>
                      THEN [ok |-> TRUE, h |-> h, c |-> e.c, first |-> "bind",
                            out |-> w, evs |-> <<>>, steps |-> <<Step(a1, "bind")>>]
                      ELSE LET t == do_apply(h,
                                       curry_wrapped_val_or_reference_wrapper(w, FALSE),
                                       rest, j + 1)
                           IN  IF ~t.ok
                               THEN Rejected
                               ELSE [t EXCEPT !.c = e.c, !.first = "bind",
                                              !.steps = <<Step(a1, "bind")>> \o t.steps]

\* ---- the client program ----
\* meta: for each named wrapper, the callable it was built from, the tokens
\* applied since (arguments, Unit for an empty application) and the
\* invocations made along its derivation
NoMeta == [root |-> Nil, hist |-> <<>>, trace |-> <<>>, of |-> 0]
NoLast == [op |-> "init", l |-> 0, mode |-> "", args |-> <<>>, evs |-> <<>>, out |-> 0]

IsWrapper(h, l) == h[l].k = "wrap"
Wrappers(h) == {l \in Loc : IsWrapper(h, l)}
Live(h, l) == IsWrapper(h, l) /\ h[l].held.k # "moved"
HasFree(h) == \E l \in Loc : l >= FirstW /\ h[l] = Nil
NextFree(h) == CHOOSE l \in Loc : l >= FirstW /\ h[l] = Nil
                                  /\ \A m \in Loc : (m >= FirstW /\ h[m] = Nil) => l <= m

\* the value v mentions location l through a reference
RECURSIVE Mentions(_, _)
Mentions(v, l) ==
    CASE v.k = "ref" -> v.loc = l
      [] v.k = "lref" -> v.loc = l
      [] v.k = "bind" -> Mentions(v.f, l)
      [] v.k = "wrap" -> Mentions(v.held, l)
      [] OTHER -> FALSE
Referenced(h, l) == \E m \in Loc : m # l /\ Mentions(h[m], l)

Modes == {"lv", "clv", "rv", "crv"}
Names(evs) == [i \in 1..Len(evs) |-> evs[i].fn]
Tokens(args) == IF args = <<>> THEN <<Unit>> ELSE args
\* the argument groups the client supplies: of each length, the runs that
\* start at any argument value and step cyclically through 1..MaxArg, so that
\* the arguments of a group differ by position and groups of one length differ
Run(a, m) == [i \in 1..m |-> ((a + i - 2) % MaxArg) + 1]
ArgSeqs(n) == {Run(a, m) : a \in Args, m \in 0..n}

Init ==
    /\ \E r \in Roots, o \in GlobalObjects :
          /\ (r # get) => o = acc(1)
          /\ heap = [l \in Loc |-> IF l = LV THEN r ELSE IF l = LG THEN o ELSE Nil]
          /\ meta = [l \in Loc |-> IF l = LG /\ o.k = "wrap"
                                   THEN [root |-> acc(1), hist |-> <<>>, trace |-> <<>>,
                                         of |-> 0]
                                   ELSE NoMeta]
    /\ log = <<>>
    /\ nmut = 0
    /\ last = NoLast

\* auto w = curry(v);  or  auto w = curry(T(v));
Construct(cat) ==
    /\ HasFree(heap)
    /\ LET n == NextFree(heap)
           x == IF cat = "lvalue" THEN LValue(LV) ELSE PrValue(heap[LV])
       IN  /\ heap' = [heap EXCEPT ![n] = curry(heap, x, FALSE)]
           /\ meta' = [meta EXCEPT ![n] = [root |-> heap[LV], hist |-> <<>>, trace |-> <<>>,
                                         of |-> 0]]
           /\ last' = [op |-> "construct", l |-> 0, mode |-> cat, args |-> <<>>,
                       evs |-> <<>>, out |-> n]
    /\ UNCHANGED <<log, nmut>>

\* the heap after the wrapper at l has been applied with exposure e and outcome
\* r: a held value passed as a non-const expiring value has been moved into
\* the bind_front object, or invoked in place
AfterApply_keeping(h, l, e, r) ==
    IF e.own /\ ~e.cq /\ r.first # "bind"
    THEN [r.h EXCEPT ![l] = Wrap(r.c)]
    ELSE r.h
AfterApply_caching(h, l, e, r) ==
    IF r.first = "invoke" /\ r.out # Nil
    THEN [r.h EXCEPT ![l] = r.out]
    ELSE IF e.own /\ ~e.cq
    THEN [r.h EXCEPT ![l] = Wrap(IF r.first = "bind" THEN Moved ELSE r.c)]
    ELSE r.h
AfterApply(h, l, e, r) ==
    IF e.own /\ ~e.cq
    THEN [r.h EXCEPT ![l] = Wrap(IF r.first = "bind" THEN Moved ELSE r.c)]
    ELSE r.h

\* auto x = w(args...);  with w used as lvalue, const lvalue, rvalue, const rvalue
Apply(l, mode, args) ==
    /\ HasFree(heap)
    /\ Live(heap, l)
    /\ Len(meta[l].hist) + Len(Tokens(args)) <= MaxHist
    /\ (Expose(heap, l, mode).own /\ ~Expose(heap, l, mode).cq) => ~Referenced(heap, l)
    /\ \E r \in {do_apply(heap, Expose(heap, l, mode), args, Len(meta[l].hist) + 1)} :
           /\ r.ok
           /\ (r.out = Nil) => Len(log) < MaxLog
           /\ LET h1 == AfterApply(heap, l, Expose(heap, l, mode), r)
                  n == IF r.out = Nil THEN 0 ELSE NextFree(heap)
              IN  /\ heap' = IF n = 0 THEN h1 ELSE [h1 EXCEPT ![n] = r.out]
                  /\ meta' = IF n = 0 THEN meta
                             ELSE [meta EXCEPT ![n] =
                                     [root |-> meta[l].root,
                                      hist |-> meta[l].hist \o Tokens(args),
                                      trace |-> meta[l].trace \o r.evs, of |-> 0]]
                  /\ last' = [op |-> "apply", l |-> l, mode |-> mode, args |-> args,
                              evs |-> r.evs, out |-> n, steps |-> r.steps]
           /\ log' = log \o Names(r.evs)
    /\ UNCHANGED nmut

\* auto w2 = curry(w);  with w as lvalue, const lvalue, rvalue
Recurry(l, cat, cq) ==
    /\ Live(heap, l)
    /\ HasFree(heap)
    /\ (cat = "rvalue" /\ heap[l].held.k # "lref") => ~Referenced(heap, l)
    /\ LET n == NextFree(heap)
           x == IF cat = "lvalue" THEN LValue(l) ELSE PrValue(heap[l])
           h1 == IF cat = "rvalue" /\ heap[l].held.k # "lref"
                 THEN [heap EXCEPT ![l] = Wrap(Moved)]
                 ELSE heap
       IN  /\ heap' = [h1 EXCEPT ![n] = curry(heap, x, cq)]
           /\ meta' = [meta EXCEPT ![n] = [meta[l] EXCEPT !.of = l]]
           /\ last' = [op |-> "recurry", l |-> l, mode |-> cat, args |-> <<>>,
                       evs |-> <<>>, out |-> n]
    /\ UNCHANGED <<log, nmut>>

\* the client changes the state of one of its own objects: v.st = ...
Bump(c) == [c EXCEPT !.st = c.st + 1]
Mutate(l) ==
    /\ nmut < MaxMut
    /\ heap[l].k = "fn" /\ IsMutable(heap[l])
    /\ heap' = [heap EXCEPT ![l] = Bump(heap[l])]
    /\ nmut' = nmut + 1
    /\ last' = [op |-> "mutate", l |-> l, mode |-> "", args |-> <<>>, evs |-> <<>>,
                out |-> 0]
    /\ UNCHANGED <<meta, log>>

\* the client changes the state of the held value through w.curry_wrapped_val
MutateHeld(l) ==
    /\ nmut < MaxMut
    /\ Live(heap, l)
    /\ LET hv == heap[l].held
           tgt == IF hv.k = "lref" THEN heap[hv.loc] ELSE hv
       IN  /\ tgt.k = "fn" /\ IsMutable(tgt)
           /\ heap' = IF hv.k = "lref"
                      THEN [heap EXCEPT ![hv.loc] = Bump(tgt)]
                      ELSE [heap EXCEPT ![l] = Wrap(Bump(tgt))]
    /\ nmut' = nmut + 1
    /\ last' = [op |-> "mutateheld", l |-> l, mode |-> "", args |-> <<>>, evs |-> <<>>,
                out |-> 0]
    /\ UNCHANGED <<meta, log>>

\* the client keeps at most MaxW named wrappers
Room == Cardinality(Wrappers(heap)) < MaxW

Next ==
    \/ \E cat \in {"lvalue", "rvalue"} : Room /\ Construct(cat)
    \/ \E l \in Wrappers(heap), mode \in Modes, args \in ArgSeqs(MaxGroup) :
          Room /\ Apply(l, mode, args)
    \/ \E l \in Wrappers(heap), cat \in {"lvalue", "rvalue"}, cq \in BOOLEAN :
          Room /\ Recurry(l, cat, cq)
    \/ \E l \in {LV, LG} : Mutate(l)
    \/ \E l \in Wrappers(heap) : MutateHeld(l)

Spec == Init /\ [][Next]_vars

\* One chain: the client builds one wrapper and keeps applying argument
\* groups to the wrapper it obtained last, naming every intermediate wrapper.
Newest == CHOOSE l \in Wrappers(heap) : \A m \in Wrappers(heap) : m <= l

NextChain ==
    \/ \E cat \in {"lvalue", "rvalue"} : ~(\E l \in Wrappers(heap) : l >= FirstW)
                                         /\ Construct(cat)
    \/ \E mode \in {"lv", "rv"}, args \in ArgSeqs(MaxHist) :
          Wrappers(heap) # {} /\ Apply(Newest, mode, args)

SpecChain == Init /\ [][NextChain]_vars

\* ---- properties ----
IsRoot(l, name) == meta[l].root.k = "fn" /\ meta[l].root.name = name
Count(evs, name) == Cardinality({i \in 1..Len(evs) : evs[i].fn = name})

\* C1: grouping invariance of the result.  Whatever consecutive groups the
\* arguments x1..xk of f were supplied in, and through whichever stored
\* intermediate wrappers, the wrapper that has received k arguments holds
\* f(x1,...,xk) with each xi in position i, and a wrapper that has received
\* fewer holds no result yet.
GroupingInvariance ==
    \A l \in Wrappers(heap) :
        (IsRoot(l, "f") /\ Live(heap, l)) =>
            /\ Len(meta[l].hist) = meta[l].root.ar =>
                  heap[l].held = IntV(Encode(meta[l].hist))
            /\ Len(meta[l].hist) < meta[l].root.ar => heap[l].held.k # "int"

\* three arguments supplied one at a time through two stored intermediates
GroupingWitness ==
    \E l \in Wrappers(heap) :
        /\ IsRoot(l, "f") /\ meta[l].root.ar = 3 /\ Len(meta[l].hist) = 3
        /\ last.op = "apply" /\ last.out = l /\ Len(last.args) = 1
        /\ Len(meta[last.l].hist) = 2
        /\ Cardinality(Wrappers(heap)) = 4
        /\ heap[l].held.k = "int"

\* C2: side-effect-once law.  For a callable of fixed arity k >= 1 with an
\* observable side effect, an application that leaves fewer than k arguments
\* supplied invokes nothing, and the application that supplies the k-th
\* argument invokes the callable exactly once, when that argument is consumed.
HasFixedArity(c) == c.k = "fn" /\ c.ar >= 1 /\ ~IsMutable(c)
SideEffectOnce ==
    (last.op = "apply" /\ HasFixedArity(meta[last.l].root)) =>
        LET c == meta[last.l].root
            before == Len(meta[last.l].hist)
            after == before + Len(last.args)
        IN  /\ after < c.ar => last.evs = <<>>
            /\ (before < c.ar /\ after >= c.ar) =>
                  /\ Count(last.evs, c.name) = 1
                  /\ last.evs[1] = [fn |-> c.name, at |-> c.ar]
            /\ before >= c.ar => Count(last.evs, c.name) = 0

\* a partial application of f (arity 3) that invoked nothing has been followed
\* by the application that saturates it
SideEffectWitness ==
    /\ last.op = "apply" /\ IsRoot(last.l, "f") /\ meta[last.l].root.ar = 3
    /\ Len(meta[last.l].hist) = 2 /\ meta[last.l].trace = <<>>
    /\ Len(last.args) = 1 /\ last.evs = <<[fn |-> "f", at |-> 3]>>
    /\ log = <<"f">>

\* C3: for expr, a two-argument function returning a two-argument function,
\* under every grouping of four arguments the outer function runs exactly
\* once, when the second argument is consumed, the inner one exactly once,
\* when the fourth is consumed, outer before inner, and the final held value
\* is a+b+c+d.
NestedOrder ==
    \A l \in Wrappers(heap) :
        IsRoot(l, "expr") =>
            LET n == Len(meta[l].hist)
            IN  /\ n < 2 => meta[l].trace = <<>>
                /\ n \in {2, 3} => meta[l].trace = <<[fn |-> "expr", at |-> 2]>>
                /\ n = 4 =>
                     /\ meta[l].trace = <<[fn |-> "expr", at |-> 2],
                                          [fn |-> "lambda", at |-> 4]>>
                     /\ Live(heap, l) => heap[l].held = IntV(SumSeq(meta[l].hist))

\* the grouping (a)(b,c)(d): the second call runs expr and binds c
NestedWitness ==
    \E l \in Wrappers(heap) :
        /\ IsRoot(l, "expr") /\ Len(meta[l].hist) = 4
        /\ last.op = "apply" /\ last.out = l /\ Len(last.args) = 1
        /\ Len(meta[last.l].hist) = 3 /\ Cardinality(Wrappers(heap)) = 4
        /\ heap[l].held.k = "int"
        /\ log = <<"expr", "lambda">>

\* the object a wrapper holds or refers to
HeldObj(h, l) == IF h[l].held.k = "lref" THEN h[h[l].held.loc] ELSE h[l].held
IsNullary(c) == c.k = "fn" /\ c.ar = 0
\* the events printed by the zero-argument callables g, gv, l0 and l3
NullaryEvents == {"g", "gv", "forget", "applications"}

\* C4: constructing curry(g) around a zero-argument callable g invokes
\* nothing: the wrapper holds g itself; the explicit empty application
\* curry(g)() invokes g exactly once and yields a wrapper of g's result, or
\* nothing when g returns no value.
NullaryExplicit ==
    /\ (last.op = "construct" /\ IsNullary(heap[LV])) =>
          log = <<>> /\ HeldObj(heap, last.out) = heap[LV]
    /\ \A l \in Wrappers(heap) :
          (IsNullary(meta[l].root) /\ meta[l].hist = <<>> /\ Live(heap, l)) =>
              meta[l].trace = <<>> /\ HeldObj(heap, l) = meta[l].root
    /\ (last.op = "apply" /\ IsNullary(meta[last.l].root) /\ meta[last.l].hist = <<>>
          /\ last.args = <<>>) =>
          LET c == meta[last.l].root
              res == PrimInvoke(c, <<>>).res
          IN  /\ last.evs = <<[fn |-> PrimInvoke(c, <<>>).ev, at |-> 1]>>
              /\ IF res.cat = "void"
                 THEN last.out = 0
                 ELSE last.out # 0 /\ heap[last.out].held = res.v

\* curry(g)() has just run g once and wraps 100
NullaryWitness ==
    /\ last.op = "apply" /\ IsRoot(last.l, "g") /\ last.args = <<>>
    /\ last.out # 0 /\ heap[last.out].held = IntV(100)
    /\ log = <<"g">>

\* C5: no application that supplies one or more arguments invokes a callable
\* with zero arguments.  A nullary callable given at construction is not
\* invoked by arguments applied to its wrapper, and a nullary callable
\* produced by a saturating step stays held, un-invoked, until an empty
\* application is made.
NoSilentNullary ==
    /\ (last.op = "apply" /\ last.args # <<>>) =>
          \A i \in 1..Len(last.evs) : last.evs[i].fn \notin NullaryEvents
    /\ \A l \in Wrappers(heap) :
          /\ (IsNullary(meta[l].root) /\ meta[l].hist # <<>> /\ meta[l].hist[1] # Unit) =>
                meta[l].trace = <<>>
          /\ (IsRoot(l, "l0") /\ Len(meta[l].hist) = 3 /\ meta[l].hist[1] = Unit
                /\ Live(heap, l)) =>
                /\ heap[l].held = Fn("l3", 0, SubSeq(meta[l].hist, 2, 3), 0)
                /\ Names(meta[l].trace) = <<"forget", "your", "unit">>

\* curry(l0)()(a,b): the call (a,b) has produced the nullary l3 and left it alone
NoSilentNullaryWitness ==
    /\ last.op = "apply" /\ IsRoot(last.l, "l0") /\ Len(last.args) = 2
    /\ meta[last.l].hist = <<Unit>>
    /\ heap[last.out].held.k = "fn" /\ heap[last.out].held.name = "l3"
    /\ Names(last.evs) = <<"your", "unit">>

\* a callable with the state of its function objects left out
RECURSIVE Callable(_)
Callable(v) ==
    CASE v.k = "fn" -> [v EXCEPT !.st = 0]
      [] v.k = "bind" -> Bind(Callable(v.f), v.a)
      [] OTHER -> v
IsPersistentApply(l) == last'.op = "apply" /\ last'.l = l /\ last'.mode \in {"lv", "clv"}

\* C6 as stated: an application through a persistent wrapper leaves the
\* wrapper's held value unchanged.
PersistentKeepsHeld ==
    [][\A l \in Wrappers(heap) :
          IsPersistentApply(l) => HeldObj(heap', l) = HeldObj(heap, l)]_vars

\* C6, amended: an application through a persistent wrapper never moves from
\* the held value and never replaces it by another callable.  Afterwards the
\* wrapper holds the same callable, changed at most in the state that the
\* callable's own invocation updates, and unchanged when no function object
\* with state was invoked; the wrapper can be applied again, and an
\* application that completes the arguments of f yields f of those arguments.
PersistentNeverConsumes ==
    [][\A l \in Wrappers(heap) :
          IsPersistentApply(l) =>
              /\ Live(heap', l)
              /\ heap'[l].held.k = heap[l].held.k
              /\ Callable(HeldObj(heap', l)) = Callable(HeldObj(heap, l))
              /\ Count(last'.evs, "acc") = 0 => HeldObj(heap', l) = HeldObj(heap, l)
              /\ (IsRoot(l, "f") /\ Len(meta[l].hist) + Len(last'.args) = meta[l].root.ar) =>
                    heap'[last'.out].held = IntV(Encode(meta[l].hist \o last'.args))
              /\ \A args \in ArgSeqs(MaxGroup) :
                    do_apply(heap', Expose(heap', l, last'.mode), args, 1).ok
                        = do_apply(heap, Expose(heap, l, last'.mode), args, 1).ok]_vars

\* a named wrapper that owns a function object with state has been applied as
\* an lvalue: it is still live and its function object has advanced
PersistentWitness ==
    /\ last.op = "apply" /\ last.mode = "lv" /\ last.args # <<>>
    /\ Live(heap, last.l)
    /\ heap[last.l].held.k = "fn" /\ heap[last.l].held.name = "acc"
    /\ heap[last.l].held.st = Encode(last.args)
    /\ heap[last.out].held = IntV(Encode(last.args))

\* a value with every reference in it replaced by the object referred to
RECURSIVE Observe(_, _)
Observe(h, v) ==
    CASE v.k = "ref" -> Observe(h, Deref(h, v))
      [] v.k = "lref" -> Observe(h, h[v.loc])
      [] v.k = "bind" -> Bind(Observe(h, v.f), v.a)
      [] v.k = "wrap" -> Wrap(Observe(h, v.held))
      [] OTHER -> v
\* two outcomes of do_apply agree in what a client can observe
SameOutcome(r1, r2) ==
    /\ r1.ok = r2.ok
    /\ r1.ok => /\ r1.evs = r2.evs
                /\ Observe(r1.h, r1.out) = Observe(r2.h, r2.out)

\* C7: curry applied to a value that is already a wrapper, whatever its const
\* or reference qualification, adds no second wrapper layer: no wrapper ever
\* holds a wrapper, the wrapper returned is the wrapper passed, nothing is
\* invoked, and while both are usable every application gives the same
\* results and side effects on either.
RecurryIdempotent ==
    [][/\ \A l \in Wrappers(heap') : HeldObj(heap', l).k # "wrap"
       /\ last'.op = "recurry" =>
             /\ heap'[last'.out] = heap[last'.l]
             /\ log' = log
             /\ Live(heap', last'.l) =>
                   \A mode \in Modes, args \in ArgSeqs(MaxGroup) :
                       SameOutcome(do_apply(heap', Expose(heap', last'.out, mode), args, 1),
                                   do_apply(heap', Expose(heap', last'.l, mode), args, 1))]_vars

\* curry(w) of a named wrapper w that has one argument of f bound: the copy is
\* a single wrapper around the same bind_front object
RecurryWitness ==
    /\ last.op = "recurry" /\ last.mode = "lvalue"
    /\ IsRoot(last.l, "f") /\ Len(meta[last.l].hist) = 1
    /\ heap[last.out].held.k = "bind"
    /\ heap[last.out] = heap[last.l]

\* C8: curry applied to a persistent wrapper returns a wrapper referring to
\* the same held state as its argument: while both exist, the object held by
\* the one is the object held by the other, whatever mutation was made
\* through either.
RecurrySharesState ==
    \A n \in Wrappers(heap) :
        (meta[n].of # 0 /\ Live(heap, n) /\ Live(heap, meta[n].of)) =>
            HeldObj(heap, n) = HeldObj(heap, meta[n].of)

\* C9: capture at construction follows the value category.  curry(v) of the
\* named callable v holds a reference to v: an invocation through the wrapper
\* starts from the current state of v and leaves its effect in v.  curry of an
\* expiring value holds its own object: an invocation through the wrapper
\* starts from the state of that object, advances it unless the wrapper is
\* accessed as const, and leaves v alone; a change of v leaves the wrapper
\* alone.
IsConstructed(l) == IsWrapper(heap, l) /\ meta[l].hist = <<>> /\ meta[l].of = 0 /\ l >= FirstW
CaptureFollowsCategory ==
    [][/\ last'.op = "construct" =>
             /\ heap'[LV] = heap[LV]
             /\ last'.mode = "lvalue" => heap'[last'.out].held = LRef(LV)
             /\ last'.mode = "rvalue" => heap'[last'.out].held = heap[LV]
       /\ \A l \in Wrappers(heap) :
             (IsConstructed(l) /\ IsRoot(l, "acc") /\ Live(heap, l)) =>
                 /\ (last'.op = "apply" /\ last'.l = l /\ Len(last'.args) = meta[l].root.ar
                       /\ last'.evs # <<>>) =>
                       LET r == heap[LV].st + Encode(last'.args)
                           o == heap[l].held.st + Encode(last'.args)
                       IN  IF heap[l].held.k = "lref"
                           THEN /\ heap'[LV].st = r
                                /\ heap'[last'.out].held = IntV(r)
                           ELSE /\ heap'[LV] = heap[LV]
                                /\ heap'[last'.out].held = IntV(o)
                                /\ (Live(heap', l) /\ last'.mode \in {"lv", "rv"}) =>
                                      heap'[l].held.st = o
                 /\ (last'.op = "mutate" /\ last'.l = LV) =>
                       IF heap[l].held.k = "lref"
                       THEN HeldObj(heap', l) = heap'[LV] /\ heap'[LV] # heap[LV]
                       ELSE heap'[l] = heap[l]]_vars

\* v was changed by the client after curry(v), and the invocation through the
\* wrapper has started from the changed state and left its result in v
CaptureWitness ==
    /\ last.op = "apply" /\ nmut = 1 /\ last.args = <<1>>
    /\ IsRoot(last.l, "acc") /\ meta[last.l].hist = <<>>
    /\ heap[last.l].held = LRef(LV)
    /\ heap[LV].st = 2
    /\ heap[last.out].held = IntV(2)

\* C10: when the invoked callable returns a reference to existing storage,
\* the new wrapper holds a non-owning view of that storage; when it returns a
\* fresh temporary, the new wrapper owns the value.
IsReference(v) == v.k \in {"lref", "ref"}
ResultClassification ==
    (last.op = "apply" /\ last.out # 0 /\ last.evs # <<>>) =>
        LET c == meta[last.l].root
        IN  IF c.k = "fn" /\ c.name = "get" /\ meta[last.l].hist = <<>>
            THEN IF Len(last.args) = 1
                 THEN heap[last.out].held = LRef(LG)
                 ELSE TRUE
            ELSE ~IsReference(heap[last.out].held)

\* ---- implicit conversion ----
\* operator curry_wrapped_type&() and its three other qualifications: the
\* member curry_wrapped_val itself, which for callable_t = T& is the object
\* referred to
operator_curry_wrapped_type_forcing(h, l) ==
    LET v == IF h[l].held.k = "lref" THEN h[h[l].held.loc] ELSE h[l].held
    IN  IF Invocable(h, v, <<>>, FALSE) /\ Invoke(h, v, <<>>).res.cat = "prvalue"
        THEN Invoke(h, v, <<>>).res.v
        ELSE v
operator_curry_wrapped_type(h, l) ==
    IF h[l].held.k = "lref" THEN h[h[l].held.loc] ELSE h[l].held

\* T x = w;  with w used as lvalue, const lvalue, rvalue, const rvalue: x is
\* initialised from the reference the conversion returns, by move when that is
\* a non-const rvalue reference to a value the wrapper owns
Convert(l, mode) ==
    /\ Live(heap, l)
    /\ (mode = "rv" /\ heap[l].held.k # "lref") => ~Referenced(heap, l)
    /\ last' = [op |-> "convert", l |-> l, mode |-> mode, args |-> <<>>, evs |-> <<>>,
                out |-> 0, val |-> operator_curry_wrapped_type(heap, l)]
    /\ heap' = IF mode = "rv" /\ heap[l].held.k # "lref"
               THEN [heap EXCEPT ![l] = Wrap(Moved)]
               ELSE heap
    /\ UNCHANGED <<meta, log, nmut>>

\* One chain, whose newest wrapper may be converted at any point.
NextConv ==
    \/ NextChain
    \/ \E mode \in Modes : Wrappers(heap) # {} /\ Convert(Newest, mode)

SpecConv == Init /\ [][NextConv]_vars

\* C11: implicit conversion of a wrapper yields its current held value and
\* invokes nothing: the original value for a wrapper that no argument was
\* applied to (a plain value included), the intermediate callable for a
\* partially applied one, which called with the missing arguments gives the
\* result, and after a saturating step the callable's own return value.
ConversionYieldsHeld ==
    [][last'.op = "convert" =>
          LET l == last'.l
              v == last'.val
              m == meta[l]
              left == IF IsRoot(l, "f") /\ Len(m.hist) < m.root.ar
                      THEN Run(1, m.root.ar - Len(m.hist)) ELSE <<>>
          IN  /\ log' = log
              /\ v.k \notin {"wrap", "lref", "moved"}
              /\ (m.hist = <<>> /\ ~(m.root.k = "fn" /\ IsMutable(m.root))) => v = m.root
              /\ (IsRoot(l, "f") /\ m.hist # <<>> /\ Len(m.hist) < m.root.ar) =>
                    /\ v.k = "bind" /\ v.a = m.hist[Len(m.hist)]
                    /\ Invocable(heap, v, left, FALSE)
                    /\ Invoke(heap, v, left).res = PrValue(IntV(Encode(m.hist \o left)))
              /\ (IsRoot(l, "f") /\ Len(m.hist) = m.root.ar) => v = IntV(Encode(m.hist))
              /\ (IsRoot(l, "expr") /\ Len(m.hist) = 2) => v = Fn("lambda", 2, m.hist, 0)
              /\ (IsRoot(l, "l0") /\ m.hist = <<Unit>>) => v = Fn("l1", 1, <<>>, 0)]_vars

\* the wrapper obtained from curry(expr)(a)(b) has been converted: the value
\* is the function expr returned
ConversionWitness ==
    /\ last.op = "convert" /\ IsRoot(last.l, "expr")
    /\ Len(meta[last.l].hist) = 2
    /\ last.val.k = "fn" /\ last.val.name = "lambda"
    /\ log = <<"expr">>

\* the deferred binding of the arguments left, one at a time, onto v
RECURSIVE BindAll(_, _)
BindAll(v, left) == IF left = <<>> THEN v ELSE BindAll(Bind(v, Head(left)), Tail(left))

\* C12: over-application.  When one application supplies more arguments than
\* the callable c of arity k needs, c is invoked once, when its k-th argument
\* is consumed, and the arguments left are applied in order to its result: a
\* result that is a callable of at most that many arguments is invoked once,
\* when its last argument is consumed, and what it returns receives the
\* arguments still left; a result that misses arguments or is a plain value
\* gets them bound one after the other and nothing more is invoked.
OverApplication ==
    (/\ last.op = "apply" /\ meta[last.l].hist = <<>>
     /\ HasFixedArity(meta[last.l].root)
     /\ Len(last.args) > meta[last.l].root.ar
     /\ PrimInvoke(meta[last.l].root, SubSeq(last.args, 1, meta[last.l].root.ar)).res.cat
           = "prvalue") =>
        LET c == meta[last.l].root
            k == c.ar
            left == SubSeq(last.args, k + 1, Len(last.args))
            rv == PrimInvoke(c, SubSeq(last.args, 1, k)).res.v
        IN  /\ last.out # 0
            /\ last.evs[1] = [fn |-> c.name, at |-> k]
            /\ Count(last.evs, c.name) = 1
            /\ IF rv.k = "fn" /\ rv.ar >= 1 /\ rv.ar <= Len(left)
               THEN LET r2 == PrimInvoke(rv, SubSeq(left, 1, rv.ar))
                    IN  /\ heap[last.out].held
                              = BindAll(r2.res.v, SubSeq(left, rv.ar + 1, Len(left)))
                        /\ last.evs = <<[fn |-> c.name, at |-> k],
                                        [fn |-> r2.ev, at |-> k + rv.ar]>>
               ELSE /\ heap[last.out].held = BindAll(rv, left)
                    /\ Len(last.evs) = 1

\* curry(expr)(a,b,c,d) in one application: expr ran at the second argument,
\* the function it returned at the fourth
OverApplicationWitness ==
    /\ last.op = "apply" /\ IsRoot(last.l, "expr") /\ meta[last.l].hist = <<>>
    /\ Len(last.args) = 4
    /\ heap[last.out].held = IntV(SumSeq(last.args))
    /\ Names(last.evs) = <<"expr", "lambda">>

\* C13: when the held callable applied to the supplied argument returns no
\* value, it is invoked exactly once and the application yields no wrapper;
\* this is accepted only when that argument is the last one of the call, and
\* a call that supplies further arguments after it is rejected.
VoidApplication ==
    /\ (last.op = "apply" /\ IsRoot(last.l, "pr")) =>
          /\ last.out = 0
          /\ Len(last.args) = 1
          /\ last.evs = <<[fn |-> "pr", at |-> Len(meta[last.l].hist) + 1]>>
    /\ \A l \in Wrappers(heap) :
          (IsRoot(l, "pr") /\ Live(heap, l)) =>
              \A mode \in Modes, args \in ArgSeqs(MaxHist) :
                  LET r == do_apply(heap, Expose(heap, l, mode), args, 1)
                  IN  /\ Len(args) = 1 =>
                            r.ok /\ r.out = Nil /\ Names(r.evs) = <<"pr">>
                      /\ Len(args) > 1 => ~r.ok

\* curry(pr)(a) has run pr once and produced no wrapper
VoidApplicationWitness ==
    /\ last.op = "apply" /\ IsRoot(last.l, "pr") /\ Len(last.args) = 1
    /\ last.out = 0
    /\ log = <<"pr">>
    /\ Cardinality(Wrappers(heap)) = 1

\* applying args to the wrapper at l can never lead to a valid invocation of
\* what it holds: it holds a zero-argument callable or a plain value, or the
\* arguments are more than the arity of f
IsTerminal(v) == IsNullary(v) \/ v.k = "int"
IsTooMany(l, args) ==
    IsRoot(l, "f") /\ meta[l].hist = <<>> /\ Len(args) > meta[l].root.ar
NonEmptyGroups == ArgSeqs(MaxGroup) \ {<<>>}

AnyArgumentBinds ==
    /\ \A l \in Wrappers(heap), mode \in Modes, a \in Args :
          (Live(heap, l) /\ ~invocable_with(heap, Expose(heap, l, mode), a)) =>
              LET e == Expose(heap, l, mode)
                  r == do_apply(heap, e, <<a>>, 1)
              IN  r.ok /\ r.evs = <<>> /\ r.h = heap /\ r.out = Wrap(Bind(e.c, a))
    /\ \A l \in Wrappers(heap) :
          (meta[l].root = raw /\ Live(heap, l)) =>
              /\ Observe(heap, heap[l]) = Wrap(BindAll(raw, meta[l].hist))
              /\ meta[l].trace = <<>>
              /\ \A args \in ArgSeqs(MaxGroup) : ~Invocable(heap, heap[l].held, args, FALSE)

\* three arguments have been applied to the wrapper of a plain value, one
\* application after the other, and nothing was invoked
AnyArgumentBindsWitness ==
    \E l \in Wrappers(heap) :
        /\ meta[l].root = raw /\ Len(meta[l].hist) = 3
        /\ Cardinality(Wrappers(heap)) = 4
        /\ heap[l].held.k = "bind"
        /\ log = <<>>

\* C16 as stated: a zero-argument application on a wrapper whose held value
\* is not invocable with zero arguments returns the wrapper itself unchanged
\* and invokes nothing.
EmptyApplicationIdentity ==
    \A l \in Wrappers(heap), mode \in Modes :
        (Live(heap, l) /\ ~Invocable(heap, Expose(heap, l, mode).c, <<>>,
                                     Expose(heap, l, mode).cq)) =>
            LET r == do_apply(heap, Expose(heap, l, mode), <<>>, 1)
            IN  r.ok /\ r.evs = <<>> /\ Observe(r.h, r.out) = Observe(heap, heap[l])

\* C16, amended: a zero-argument application on a wrapper whose held value is
\* not invocable with zero arguments is rejected: it returns nothing and
\* invokes nothing.  A zero-argument application is accepted exactly when the
\* held value, as the wrapper exposes it, is invocable with zero arguments,
\* and every one performed has invoked it.
EmptyApplicationRejected ==
    /\ \A l \in Wrappers(heap), mode \in Modes :
          Live(heap, l) =>
              (do_apply(heap, Expose(heap, l, mode), <<>>, 1).ok
                  <=> Invocable(heap, Expose(heap, l, mode).c, <<>>,
                                Expose(heap, l, mode).cq))
    /\ \A l \in Wrappers(heap) :
          (Live(heap, l) /\ HeldObj(heap, l).k \in {"int", "bind"}) =>
              \A mode \in Modes : ~do_apply(heap, Expose(heap, l, mode), <<>>, 1).ok
    /\ (last.op = "apply" /\ last.args = <<>>) => Len(last.evs) = 1

\* a named wrapper holds f with one of its two arguments bound, and the empty
\* application on it is rejected
EmptyApplicationWitness ==
    \E l \in Wrappers(heap) :
        /\ IsRoot(l, "f") /\ meta[l].root.ar = 2 /\ Len(meta[l].hist) = 1
        /\ Live(heap, l) /\ heap[l].held.k = "bind"
        /\ ~do_apply(heap, Expose(heap, l, "lv"), <<>>, 1).ok

\* ---- the concept curried<t, return_t, args_t...> ----
\* Types are told by values: a result type is the kind of value a wrapper
\* holds, "void" the type of an application that returns nothing; an argument
\* type is an argument, Unit the void that stands for an empty application.
RetTypes == {"int", "double", "fn", "bind", "void"}
TokenSeqs == {<<>>} \cup {<<x>> : x \in {Unit} \cup Args}
                 \cup {<<x, y>> : x \in {Unit} \cup Args, y \in {Unit} \cup Args}
Kind(h, v) == IF v.k = "lref" THEN h[v.loc].k ELSE v.k
Pack(tok) == IF tok = Unit THEN <<>> ELSE <<tok>>

\* From -> To of the implicit conversions: the type itself, and the standard
\* conversion of an int to a double; no value of the model is a double
is_convertible(from, to) == from = to \/ (from = "int" /\ to = "double")

\* std::convertible_to<curry_wrapper<t>, return_t>, through the conversion
\* operators, which give a reference to the held value
convertible_to_same_as(h, w, ret) == ret # "void" /\ Kind(h, w.held) = ret
convertible_to(h, w, ret) == ret # "void" /\ is_convertible(Kind(h, w.held), ret)

\* the object a of the requires-expression, at a location beyond the heap
Place(h, w, at) == [x \in DOMAIN h \cup {at} |-> IF x = at THEN w ELSE h[x]]

\* is_curried_v<curry_wrapper<t>, return_t, args_t...>: the specialisations
\* for a wrapper type, which apply the arguments one at a time to an lvalue a.
\* The type void matches no specialisation and is its own remove_cvref_t, so
\* the base case answers no for it.  An application that no overload accepts
\* inside the requires-expression is an error in the body of operator(),
\* whose return type is deduced, and not a substitution failure.
RECURSIVE is_curried_v_r(_, _, _, _)
is_curried_v_r(h, w, ret, ts) ==
    IF w = Nil
    THEN "no"
    ELSE IF ts = <<>>
    THEN IF convertible_to(h, w, ret) THEN "yes" ELSE "no"
    ELSE LET at == NLoc + Len(ts)
             h2 == Place(h, w, at)
             r == do_apply(h2, Expose(h2, at, "lv"), Pack(Head(ts)), 1)
         IN  IF ~r.ok THEN "error" ELSE is_curried_v_r(r.h, r.out, ret, Tail(ts))

\* the pattern curry_wrapper<t> of the specialisations
IsCurryWrapperType(t) == t.wrapper /\ ~t.const /\ t.ref = ""

\* curried<t, return_t, args_t...> for a value w of type t
curried_exact(h, t, w, ret, ts) ==
    IF IsCurryWrapperType(t) THEN is_curried_v_r(h, w, ret, ts) ELSE "no"
curried(h, t, w, ret, ts) ==
    IF IsCurryWrapperType(t)
    THEN is_curried_v_r(h, w, ret, ts)
    ELSE IF t # remove_cvref_t(t) /\ IsCurryWrapperType(remove_cvref_t(t))
    THEN is_curried_v_r(h, w, ret, ts)
    ELSE "no"

\* w(a1)(a2)...(an) as written: the first application to the wrapper as it is
\* exposed, every further one to the temporary the previous one returned
RECURSIVE ApplyEach(_, _, _, _)
ApplyEach(h, w, e, ts) ==
    IF ts = <<>>
    THEN [ok |-> TRUE, type |-> IF w = Nil THEN "void" ELSE Kind(h, w.held)]
    ELSE IF w = Nil
    THEN [ok |-> FALSE]
    ELSE LET r == do_apply(h, e, Pack(Head(ts)), 1)
         IN  IF ~r.ok
             THEN [ok |-> FALSE]
             ELSE ApplyEach(r.h, r.out,
                            IF r.out = Nil THEN Nil
                            ELSE curry_wrapped_val_or_reference_wrapper(r.out, FALSE),
                            Tail(ts))

\* the wrapper the last step produced
Subjects == IF last.op \in {"construct", "apply"} /\ last.out # 0 THEN {last.out} ELSE {}
UnqualifiedWrapper == Type(TRUE, FALSE, "")

\* C17: for every wrapper, result type and argument list, the query
\* curried<W, R, A1..An> answers yes exactly when applying A1..An to the
\* wrapper one at a time is accepted and gives a result of type R.
ClassificationSound ==
    \A l \in Subjects : \A ret \in RetTypes : \A ts \in TokenSeqs :
        LET a == ApplyEach(heap, heap[l], Expose(heap, l, "lv"), ts)
        IN  (curried(heap, UnqualifiedWrapper, heap[l], ret, ts) = "yes")
            <=> (a.ok /\ a.type = ret)

\* C18: the query ignores the qualification of the wrapper type: with no
\* further parameters it holds exactly when the type without its const and
\* reference qualifiers is a wrapper type, and for every result type and
\* argument list the answer for a qualified wrapper type is the answer for
\* the unqualified one.
Qualifiers == {Type(wr, c, r) : wr \in BOOLEAN, c \in BOOLEAN, r \in {"", "&", "&&"}}
QualifiersIgnored ==
    /\ \A l \in {LV, LG} \cup Subjects : \A t \in Qualifiers :
           t.wrapper = (heap[l].k = "wrap") => (is_curried_v(t) <=> heap[l].k = "wrap")
    /\ \A l \in Subjects : \A ret \in RetTypes : \A ts \in TokenSeqs :
           LET plain == curried(heap, UnqualifiedWrapper, heap[l], ret, ts)
           IN  \A t \in Qualifiers : t.wrapper => curried(heap, t, heap[l], ret, ts) = plain
    /\ \A ret \in RetTypes : \A ts \in TokenSeqs : \A t \in Qualifiers :
           ~t.wrapper => curried(heap, t, heap[LV], ret, ts) = "no"

QualifiersWitness ==
    \E l \in Subjects : \E ts \in TokenSeqs :
        /\ Len(ts) = 2
        /\ curried(heap, Type(TRUE, TRUE, "&"), heap[l], "int", ts) = "yes"
        /\ curried(heap, Type(TRUE, FALSE, "&&"), heap[l], "int", ts) = "yes"
        /\ curried(heap, UnqualifiedWrapper, heap[l], "fn", ts) = "no"

\* ---- the client applies any wrapper it kept again ----
\* auto a = p(2); auto b = p(2);  with p any wrapper obtained so far, used as
\* an lvalue, while the client keeps at most MaxW wrappers besides the new one
NextAgain ==
    \/ NextChain
    \/ \E l \in Wrappers(heap), args \in ArgSeqs(MaxGroup) :
          Cardinality(Wrappers(heap)) <= MaxW /\ Apply(l, "lv", args)

SpecAgain == Init /\ [][NextAgain]_vars

CountLog(s, name) == Cardinality({i \in 1..Len(s) : s[i] = name})
Saturates(l, args) ==
    LET c == meta[l].root
    IN  \/ c.ar >= 1 /\ Len(meta[l].hist) < c.ar /\ Len(meta[l].hist) + Len(args) >= c.ar
        \/ c.ar = 0 /\ meta[l].hist = <<>> /\ args = <<>>

\* C19: no caching.  Every application that completes the arguments of the
\* underlying callable invokes it once more, whether or not the same wrapper
\* or the same stored partial was applied to the same arguments before, and
\* no other application invokes it: the number of invocations grows by one
\* exactly at each saturating application.
NoCaching ==
    [][(last'.op = "apply" /\ meta[last'.l].root.k = "fn"
        /\ ~IsMutable(meta[last'.l].root)) =>
          LET c == meta[last'.l].root
              ev == PrimInvoke(c, [i \in 1..c.ar |-> 1]).ev
          IN  CountLog(log', ev) = CountLog(log, ev)
                  + (IF Saturates(last'.l, last'.args) THEN 1 ELSE 0)]_vars

NoCachingWitness ==
    /\ last.op = "apply" /\ last.mode = "lv" /\ last.out # 0
    /\ LET l == last.l
           c == meta[l].root
       IN  /\ HasFixedArity(c)
           /\ Len(meta[l].hist) >= 1
           /\ Saturates(l, last.args)
           /\ CountLog(log, c.name) = 2
           /\ \E n \in Wrappers(heap) \ {last.out} :
                 meta[n] = meta[last.out] /\ heap[n] = heap[last.out]

\* ---- construction with initial arguments: curry{f, x, y, z} ----
\* The constructor that takes arguments to bind.  With arguments it is the
\* plain wrapper, as a temporary, applied to them in one application; with
\* none it is the plain wrapper.
curry_with(h, x, args) ==
    IF args = <<>>
    THEN [ok |-> TRUE, h |-> h, out |-> curry(h, x, FALSE), evs |-> <<>>]
    ELSE do_apply(h, curry_wrapped_val_or_reference_wrapper(curry(h, x, FALSE), FALSE),
                  args, 1)

\* auto w = curry{v, args...};  or  auto w = curry{T(v), args...};
ConstructWith(cat, args) ==
    /\ HasFree(heap)
    /\ LET n == NextFree(heap)
           x == IF cat = "lvalue" THEN LValue(LV) ELSE PrValue(heap[LV])
           r == curry_with(heap, x, args)
       IN  /\ r.ok
           /\ r.out # Nil
           /\ heap' = [r.h EXCEPT ![n] = r.out]
           /\ meta' = [meta EXCEPT ![n] = [root |-> heap[LV], hist |-> args,
                                         trace |-> r.evs, of |-> 0]]
           /\ last' = [op |-> "constructwith", l |-> 0, mode |-> cat, args |-> args,
                       evs |-> r.evs, out |-> n]
           /\ log' = log \o Names(r.evs)
    /\ UNCHANGED nmut

NextWith ==
    \/ \E cat \in {"lvalue", "rvalue"}, args \in ArgSeqs(MaxHist) :
          ~(\E l \in Wrappers(heap) : l >= FirstW) /\ ConstructWith(cat, args)
    \/ NextChain

SpecWith == Init /\ [][NextWith]_vars

uncurry_global(h, l, mode) == Ref(LG, FALSE, mode \in {"clv", "crv"})
uncurry(h, l, mode) == Ref(l, TRUE, mode \in {"clv", "crv"})

\* T x = uncurry(w);  with w used as lvalue, const lvalue, rvalue, const
\* rvalue: x is initialised from the reference returned, by move when that is
\* a non-const rvalue reference
Uncurry(l, mode) ==
    /\ Live(heap, l)
    /\ heap[l].held.k # "lref"
    /\ mode = "rv" => ~Referenced(heap, l)
    /\ last' = [op |-> "uncurry", l |-> l, mode |-> mode, args |-> <<>>, evs |-> <<>>,
                out |-> 0, ref |-> uncurry(heap, l, mode),
                val |-> Deref(heap, uncurry(heap, l, mode))]
    /\ heap' = IF mode = "rv" THEN [heap EXCEPT ![l] = Wrap(Moved)] ELSE heap
    /\ UNCHANGED <<meta, log, nmut>>

\* uncurry(w).st = ...;  the client changes the state of a function object
\* through the reference uncurry returns for the lvalue w
UncurryWrite(l) ==
    /\ nmut < MaxMut
    /\ Live(heap, l)
    /\ heap[l].held.k = "fn" /\ IsMutable(heap[l].held)
    /\ LET r == uncurry(heap, l, "lv")
       IN  /\ ~r.cq
           /\ heap' = Store(heap, r, Bump(Deref(heap, r)))
           /\ last' = [op |-> "uncurrywrite", l |-> l, mode |-> "lv", args |-> <<>>,
                       evs |-> <<>>, out |-> 0, ref |-> r, val |-> Deref(heap, r)]
    /\ nmut' = nmut + 1
    /\ UNCHANGED <<meta, log>>

\* One chain, whose newest wrapper may be passed to uncurry at any point.
NextUncurry ==
    \/ NextChain
    \/ \E mode \in Modes : Wrappers(heap) # {} /\ Uncurry(Newest, mode)
    \/ Wrappers(heap) # {} /\ UncurryWrite(Newest)

SpecUncurry == Init /\ [][NextUncurry]_vars

\* C21: uncurry(w) returns the held value of w itself, the object the
\* implicit conversion exposes, const exactly when w is used as const; it
\* invokes nothing, and for persistent access it changes nothing and the
\* reference is an alias: a write through it is a write to the held value of
\* w and to no other object.
UncurryYieldsHeld ==
    [][/\ last'.op = "uncurry" =>
            LET l == last'.l
            IN  /\ log' = log
                /\ last'.val = heap[l].held
                /\ last'.val = operator_curry_wrapped_type(heap, l)
                /\ last'.ref.loc = l /\ last'.ref.mem
                /\ last'.ref.cq = (last'.mode \in {"clv", "crv"})
                /\ last'.mode \in {"lv", "clv", "crv"} => heap' = heap
                /\ \A m \in Loc \ {l} : heap'[m] = heap[m]
       /\ last'.op = "uncurrywrite" =>
            LET l == last'.l
            IN  /\ log' = log
                /\ heap'[l] = Wrap(Bump(heap[l].held))
                /\ \A m \in Loc \ {l} : heap'[m] = heap[m]]_vars

\* the result of a saturating step, read through uncurry of the wrapper used
\* as a const lvalue
UncurryWitness ==
    /\ last.op = "uncurry" /\ last.mode = "clv"
    /\ IsRoot(last.l, "f") /\ Len(meta[last.l].hist) = meta[last.l].root.ar
    /\ last.val = IntV(Encode(meta[last.l].hist))
    /\ last.ref.cq
    /\ log = <<"f">>

\* ---- a callable with call operators of several argument counts ----
InitOv ==
    /\ \E lo \in 1..2 :
          heap = [l \in Loc |-> IF l = LV THEN ov(lo) ELSE IF l = LG THEN acc(1) ELSE Nil]
    /\ meta = [l \in Loc |-> NoMeta]
    /\ log = <<>>
    /\ nmut = 0
    /\ last = NoLast

SpecOv == InitOv /\ [][NextChain]_vars

\* C22: the decision to invoke or to bind looks at the next argument only.
\* For a function object that takes lo or lo + 1 arguments, in whatever
\* groups the arguments are supplied: nothing is invoked before the lo-th
\* argument, the call operator of lo arguments is invoked when the lo-th
\* argument is consumed, the one of lo + 1 arguments is never invoked, and
\* the arguments after the lo-th are bound onto the result.
ShortestPrefix ==
    /\ \A l \in Wrappers(heap) :
          (IsRoot(l, "ov") /\ Live(heap, l)) =>
              LET lo == meta[l].root.ar
                  hist == meta[l].hist
              IN  /\ Len(hist) < lo => meta[l].trace = <<>>
                  /\ Len(hist) >= lo =>
                        /\ meta[l].trace = <<[fn |-> "ov", at |-> lo]>>
                        /\ Observe(heap, heap[l].held)
                              = BindAll(IntV(Encode(SubSeq(hist, 1, lo))),
                                        SubSeq(hist, lo + 1, Len(hist)))
    /\ \A i \in 1..Len(log) : log[i] # "ovlong"
    /\ \A l \in Wrappers(heap) :
          Live(heap, l) =>
              \A mode \in Modes, a \in Args :
                  LET e == Expose(heap, l, mode)
                      r == do_apply(heap, e, <<a>>, 1)
                  IN  r.ok => ((r.first = "invoke") <=> Invocable(heap, e.c, <<a>>, e.cq))

\* curry(ov)(a, b) in one application, for the function object that takes one
\* or two arguments
ShortestPrefixWitness ==
    /\ last.op = "apply" /\ IsRoot(last.l, "ov")
    /\ meta[last.l].root.ar = 1 /\ meta[last.l].hist = <<>>
    /\ Len(last.args) = 2
    /\ heap[last.out].held = Bind(IntV(last.args[1]), last.args[2])
    /\ log = <<"ov">>

\* C23: an application with n >= 1 arguments makes exactly n single-argument
\* steps; the i-th step is given the i-th argument, and either invokes the
\* held value once or binds the argument, so the invocations of the
\* application are those of its invoking steps, in order.
InvokingSteps(steps) == {i \in 1..Len(steps) : steps[i].did = "invoke"}
StepByStep ==
    (last.op = "apply" /\ last.args # <<>>) =>
        LET n == Len(last.args)
            base == Len(meta[last.l].hist)
        IN  /\ Len(last.steps) = n
            /\ \A i \in 1..n : /\ last.steps[i].arg = last.args[i]
                               /\ last.steps[i].did \in {"invoke", "bind"}
            /\ Len(last.evs) = Cardinality(InvokingSteps(last.steps))
            /\ \A k \in 1..Len(last.evs) : (last.evs[k].at - base) \in InvokingSteps(last.steps)
            /\ \A j, k \in 1..Len(last.evs) : j < k => last.evs[j].at < last.evs[k].at

\* curry(expr)(a, b, c, d): four steps, the second and the fourth invoke
StepByStepWitness ==
    /\ last.op = "apply" /\ IsRoot(last.l, "expr") /\ meta[last.l].hist = <<>>
    /\ Len(last.args) = 4
    /\ [i \in 1..4 |-> last.steps[i].did] = <<"bind", "invoke", "bind", "invoke">>
    /\ [i \in 1..4 |-> last.steps[i].arg] = last.args

\* ---- a partial application kept while the wrapper it was made from changes ----
\* auto w = curry(T(v)); auto p = w(a); w.curry_wrapped_val.st = ...; p(b);
\* the client changes the held value of a wrapper only while a partial
\* application made from it exists
NextAlias ==
    \/ \E cat \in {"lvalue", "rvalue"} : Wrappers(heap) = {} /\ Construct(cat)
    \/ \E l \in Wrappers(heap), mode \in Modes, args \in ArgSeqs(MaxGroup) :
          Room /\ Apply(l, mode, args)
    \/ \E l \in Wrappers(heap) : Referenced(heap, l) /\ MutateHeld(l)

SpecAlias == Init /\ [][NextAlias]_vars

\* the partial application at p holds a mutable reference to the held value
\* of a wrapper, a function object with state that takes two arguments
RefersToHeld(h, p) ==
    /\ Live(h, p)
    /\ h[p].held.k = "bind"
    /\ h[p].held.f.k = "ref" /\ h[p].held.f.mem /\ ~h[p].held.f.cq
    /\ h[h[p].held.f.loc].held.k = "fn"
    /\ h[h[p].held.f.loc].held.name = "acc" /\ h[h[p].held.f.loc].held.ar = 2

\* C24: a partial application made through a persistent wrapper that owns its
\* held value holds a reference to that held value and leaves the wrapper as
\* it was; when the partial is saturated the function object is invoked in
\* the state it has then, a change made to it in between included, and it is
\* the wrapper's own object that the invocation advances.
PartialAliasesHeld ==
    [][last'.op = "apply" =>
          LET p == last'.l
          IN  /\ (/\ last'.mode \in {"lv", "clv"} /\ heap[p].held.k # "lref"
                  /\ Len(last'.args) = 1 /\ last'.steps[1].did = "bind") =>
                    /\ heap'[last'.out].held
                          = Bind(Ref(p, TRUE, last'.mode = "clv"), last'.args[1])
                    /\ heap'[p] = heap[p]
              /\ (RefersToHeld(heap, p) /\ Len(last'.args) = 1) =>
                    LET w == heap[p].held.f.loc
                        s == heap[w].held.st
                        all == <<heap[p].held.a>> \o last'.args
                    IN  /\ Names(last'.evs) = <<"acc">>
                        /\ heap'[last'.out].held = IntV(s + Encode(all))
                        /\ heap'[w].held.st = s + Encode(all)]_vars

PartialAliasesHeldWitness ==
    /\ last.op = "apply" /\ last.mode = "lv" /\ nmut = 1
    /\ RefersToHeld(heap, last.l)
    /\ LET w == heap[last.l].held.f.loc
           all == <<heap[last.l].held.a>> \o last.args
       IN  /\ heap[last.out].held = IntV(1 + Encode(all))
           /\ heap[w].held.st = 1 + Encode(all)

\* C25: an application through an expiring wrapper.  When the wrapper owns
\* its held value the engine is given that value itself: a new partial holds
\* the callable, not a reference to the wrapper, the wrapper is left
\* moved-from when it was not const, and a result never refers to the
\* wrapper.  When the wrapper holds a reference to an external callable the
\* engine is given a reference to that callable: a new partial holds the
\* reference, the wrapper still refers to the callable, and the callable is
\* the same callable afterwards, untouched when the step only bound.
ExpiringMoves ==
    [][(last'.op = "apply" /\ last'.mode \in {"rv", "crv"}) =>
          LET l == last'.l
              n == last'.out
              own == heap[l].held.k # "lref"
              bound1 == Len(last'.args) = 1 /\ last'.steps[1].did = "bind"
          IN  /\ (own /\ bound1) =>
                    /\ heap'[n].held = Bind(heap[l].held, last'.args[1])
                    /\ last'.mode = "rv" => heap'[l] = Wrap(Moved)
                    /\ last'.mode = "crv" => heap'[l] = heap[l]
              /\ (own /\ n # 0) => ~Mentions(heap'[n], l)
              /\ ~own =>
                    LET ext == heap[l].held.loc
                    IN  /\ heap'[l] = heap[l]
                        /\ Callable(heap'[ext]) = Callable(heap[ext])
                        /\ bound1 =>
                              /\ heap'[n].held
                                    = Bind(Ref(ext, FALSE, last'.mode = "crv"), last'.args[1])
                              /\ heap'[ext] = heap[ext]]_vars

\* curry(f)(a) on a temporary for f of more than one argument: the binder
\* owns f and the temporary is moved-from
ExpiringMovesWitness ==
    /\ last.op = "apply" /\ last.mode = "rv"
    /\ heap[last.l] = Wrap(Moved)
    /\ heap[last.out].held.k = "bind"
    /\ heap[last.out].held.f = meta[last.l].root
    /\ log = <<>>

\* C26: const-qualification of a wrapper reaches its held value in every
\* case: the view of the held value that a const wrapper gives is const, and
\* an application through a const wrapper changes neither the wrapper nor the
\* object its held value refers to.
ConstPropagates ==
    [][/\ \A l \in Wrappers(heap) : Live(heap, l) => RefHeld(heap, l, TRUE).cq
       /\ (last'.op = "apply" /\ last'.mode \in {"clv", "crv"}) =>
             /\ heap'[last'.l] = heap[last'.l]
             /\ heap[last'.l].held.k = "lref" =>
                   heap'[heap[last'.l].held.loc] = heap[heap[last'.l].held.loc]]_vars

\* ---- arguments that name a variable of the caller ----
\* int x; the argument expressions x and std::ref(x)
ArgExprs == {"x", "std::ref(x)"}
\* operator()(args_t...args): the parameters are objects, initialised from
\* the argument expressions
pass_by_reference(h, ax) == XRef
pass_by_value(h, ax) == IF ax = "x" THEN h[LG].n ELSE XRef

InitArg ==
    /\ \E ar \in 2..MaxArity, x \in Args :
          heap = [l \in Loc |-> IF l = LV THEN f(ar) ELSE IF l = LG THEN IntV(x) ELSE Nil]
    /\ meta = [l \in Loc |-> NoMeta]
    /\ log = <<>>
    /\ nmut = 0
    /\ last = NoLast

\* auto r = w(x);  or  auto r = w(std::ref(x));
ApplyVar(l, mode, ax) ==
    /\ HasFree(heap)
    /\ Live(heap, l)
    /\ Len(meta[l].hist) + 1 <= MaxHist
    /\ (Expose(heap, l, mode).own /\ ~Expose(heap, l, mode).cq) => ~Referenced(heap, l)
    /\ LET args == <<pass_by_value(heap, ax)>>
           r == do_apply(heap, Expose(heap, l, mode), args, Len(meta[l].hist) + 1)
       IN  /\ r.ok
           /\ r.out # Nil
           /\ LET h1 == AfterApply(heap, l, Expose(heap, l, mode), r)
                  n == NextFree(heap)
              IN  /\ heap' = [h1 EXCEPT ![n] = r.out]
                  /\ meta' = [meta EXCEPT ![n] =
                                [root |-> meta[l].root, hist |-> meta[l].hist \o args,
                                 trace |-> meta[l].trace \o r.evs, of |-> 0]]
                  /\ last' = [op |-> "applyvar", l |-> l, mode |-> mode, args |-> args,
                              evs |-> r.evs, out |-> n, steps |-> r.steps, how |-> ax]
           /\ log' = log \o Names(r.evs)
    /\ UNCHANGED nmut

\* x = v;
AssignX(v) ==
    /\ nmut < MaxMut
    /\ heap[LG].n # v
    /\ heap' = [heap EXCEPT ![LG] = IntV(v)]
    /\ nmut' = nmut + 1
    /\ last' = [op |-> "assign", l |-> LG, mode |-> "", args |-> <<v>>, evs |-> <<>>,
                out |-> 0]
    /\ UNCHANGED <<meta, log>>

NextArg ==
    \/ \E cat \in {"lvalue", "rvalue"} : Wrappers(heap) = {} /\ Construct(cat)
    \/ \E mode \in {"lv", "rv"}, ax \in ArgExprs :
          Wrappers(heap) # {} /\ ApplyVar(Newest, mode, ax)
    \/ \E v \in Args : AssignX(v)

SpecArg == InitArg /\ [][NextArg]_vars

\* what completing the wrapper at l with the argument a would give
Future(h, l, a) == do_apply(h, Expose(h, l, "lv"), <<a>>, 1).out
HasXRef(hist) == \E i \in 1..Len(hist) : hist[i] = XRef

\* C27: an argument is captured by value at the application.  A partial
\* application made with the argument x holds the value x had then, and a
\* later assignment to x changes nothing of what such a wrapper will pass to
\* the callable; a partial made with std::ref(x) holds the reference, and the
\* callable receives the value x has when it is invoked.
ArgumentsByValue ==
    [][/\ last'.op = "applyvar" =>
            LET n == last'.out
                hist == meta'[n].hist
                vals == [i \in 1..Len(hist) |-> IF hist[i] = XRef THEN heap[LG].n ELSE hist[i]]
            IN  /\ heap'[LG] = heap[LG]
                /\ (last'.how = "x" /\ last'.steps[1].did = "bind") =>
                      heap'[n].held.a = heap[LG].n
                /\ (last'.how = "std::ref(x)" /\ last'.steps[1].did = "bind") =>
                      heap'[n].held.a = XRef
                /\ last'.how = "x" => hist[Len(hist)] = heap[LG].n
                /\ (last'.steps[1].did = "invoke" /\ Len(hist) = meta[last'.l].root.ar) =>
                      heap'[n].held = IntV(Encode(vals))
       /\ last'.op = "assign" =>
            \A l \in Wrappers(heap) :
                (Live(heap, l) /\ Len(meta[l].hist) + 1 = meta[l].root.ar) =>
                    \A a \in Args :
                        /\ ~HasXRef(meta[l].hist) => Future(heap', l, a) = Future(heap, l, a)
                        /\ Future(heap', l, a)
                              = Wrap(IntV(Encode(ArgValues(heap', meta[l].hist \o <<a>>))))]_vars

\* auto p = w(x); x = v; auto r = p(x): f received the old value first and
\* the new value second
ArgumentsByValueWitness ==
    /\ last.op = "applyvar" /\ last.how = "x" /\ nmut = 1
    /\ meta[last.out].root.ar = 2
    /\ Len(meta[last.out].hist) = 2
    /\ meta[last.out].hist[1] # heap[LG].n
    /\ meta[last.out].hist[1] # XRef
    /\ meta[last.out].hist[2] = heap[LG].n
    /\ heap[last.out].held = IntV(Encode(meta[last.out].hist))

\* C28: inside the engine an empty application to a value that is not
\* invocable with no arguments is rejected outright: do_apply gives no
\* result, no wrapper, no invocation and no changed object; and every empty
\* application that was performed found its held value invocable with no
\* arguments, invoked it, and returned something other than the wrapper it
\* was applied to.
StaticRejection ==
    [][/\ \A l \in Wrappers(heap), mode \in Modes :
             (Live(heap, l) /\ ~Invocable(heap, Expose(heap, l, mode).c, <<>>,
                                          Expose(heap, l, mode).cq)) =>
                 do_apply(heap, Expose(heap, l, mode), <<>>, 1) = Rejected
       /\ (last'.op = "apply" /\ last'.args = <<>>) =>
             /\ Invocable(heap, Expose(heap, last'.l, last'.mode).c, <<>>,
                          Expose(heap, last'.l, last'.mode).cq)
             /\ last'.evs # <<>>
             /\ last'.steps = <<Step(Unit, "invoke")>>
             /\ last'.out # 0 => heap'[last'.out] # heap[last'.l]]_vars

\* the result of a saturating application holds an int, and the empty
\* application on it is rejected under every access
StaticRejectionWitness ==
    \E l \in Wrappers(heap) :
        /\ IsRoot(l, "f") /\ Len(meta[l].hist) = meta[l].root.ar
        /\ heap[l].held.k = "int"
        /\ \A mode \in Modes : do_apply(heap, Expose(heap, l, mode), <<>>, 1) = Rejected

\* C29: the query answers yes only when applying the arguments one at a time
\* is accepted and gives a value whose type converts to the stated result
\* type; a result that converts without being of exactly that type, an int
\* asked for as a double, is answered yes.
ConvertibleResult ==
    \A l \in Subjects : \A ret \in RetTypes : \A ts \in TokenSeqs :
        LET a == ApplyEach(heap, heap[l], Expose(heap, l, "lv"), ts)
            q == curried(heap, UnqualifiedWrapper, heap[l], ret, ts)
        IN  /\ q = "yes" => (a.ok /\ a.type \in {"int", "fn", "bind"}
                                  /\ (a.type = ret \/ (a.type = "int" /\ ret = "double")))
            /\ (a.ok /\ a.type = "int" /\ ret = "double") => q = "yes"

\* the statement as the specification words it: yes only for exactly the
\* stated result type
ExactResult ==
    \A l \in Subjects : \A ret \in RetTypes : \A ts \in TokenSeqs :
        curried(heap, UnqualifiedWrapper, heap[l], ret, ts) = "yes"
            => ApplyEach(heap, heap[l], Expose(heap, l, "lv"), ts).type = ret

\* a wrapper of f with one argument missing is curried<double, int> and
\* curried<int, int>, and applying the argument gives an int
ConvertibleResultWitness ==
    \E l \in Subjects : \E a \in Args :
        /\ IsRoot(l, "f") /\ Len(meta[l].hist) + 1 = meta[l].root.ar
        /\ curried(heap, UnqualifiedWrapper, heap[l], "double", <<a>>) = "yes"
        /\ curried(heap, UnqualifiedWrapper, heap[l], "int", <<a>>) = "yes"
        /\ ApplyEach(heap, heap[l], Expose(heap, l, "lv"), <<a>>).type = "int"


\* C30: a wrapper of pr, a callable of one argument that returns nothing,
\* is curried<void, t> for every argument t: applying the argument is
\* accepted and yields no value, and the query with result type void and
\* that argument answers yes.
VoidResultClassified ==
    \A l \in Subjects : \A a \in Args :
        (IsRoot(l, "pr") /\ meta[l].hist = <<>>) =>
            /\ ApplyEach(heap, heap[l], Expose(heap, l, "lv"), <<a>>)
                   = [ok |-> TRUE, type |-> "void"]
            /\ curried(heap, UnqualifiedWrapper, heap[l], "void", <<a>>) = "yes"

====
